---- MODULE Spec2Model ----
(***************************************************************************)
(* Model of the command-line calculator of src/src/main.cpp.               *)
(*                                                                         *)
(* One run of the program is the pipeline of run():                        *)
(*     parse() -> check() -> calculate() -> print_result()                 *)
(* The argument vector is the input; the observable outcome is the exit    *)
(* status, the lines written to standard output and standard error, and    *)
(* the calls made into the arithmetic library.                             *)
(*                                                                         *)
(* A token (one element of argv) is a sequence of one-character strings,   *)
(* so that the character tests of the code (s[0] == '-', *end != '\0')     *)
(* are tests on the model's tokens.                                        *)
(***************************************************************************)
EXTENDS Integers, Sequences, FiniteSets, TLC

VARIABLES
  argv,       \* argv[1..argc-1]
  pc,         \* position in run(): parse, check, calculate, print, done
  optind,     \* getopt's index after parse()
  want_help,  \* run()'s want_help
  prc,        \* what parse() returned
  d,          \* the CalcData record
  crc,        \* what check() returned
  calc_rc,    \* what calculate() returned
  math_rc,    \* status of the arithmetic function calculate() called
  out,        \* lines written to standard output
  err,        \* lines written to standard error
  calls,      \* calls made into the arithmetic library
  stages,     \* the stages of run() executed so far
  status      \* exit status, meaningful once pc = "done"

vars == <<argv, pc, optind, want_help, prc, d, crc, calc_rc, math_rc,
          out, err, calls, stages, status>>

(***************************************************************************)
(* Bounds and program constants                                            *)
(***************************************************************************)

\* largest number of arguments after the program name
MaxArgs == 4

\* <climits>: the range of int
INT_MAX == 2147483647
INT_MIN == -INT_MAX - 1

\* argv[0]
Prog == <<".", "/", "c", "a", "l", "c">>

\* The argument tokens the runs are drawn from.
Tokens ==
  { <<"0">>, <<"5">>, <<"-", "1">>, <<"-", "1", "2">>,
    <<"2", "1", "4", "7", "4", "8", "3", "6", "4", "7">>,
    <<"2", "1", "4", "7", "4", "8", "3", "6", "4", "8">>,
    <<"-", "2", "1", "4", "7", "4", "8", "3", "6", "4", "8">>,
    <<"5", "x">>, <<" ", "5">>, <<>>,
    <<"+">>, <<"-">>, <<"x">>, <<"/">>, <<"^">>, <<"!">>,
    <<"-", "h">>, <<"-", "-", "h", "e", "l", "p">>, <<"-", "x">>,
    <<"-", "-">> }

(***************************************************************************)
(* Characters and strings                                                  *)
(***************************************************************************)

Digits == <<"0", "1", "2", "3", "4", "5", "6", "7", "8", "9">>

IsDigit(c) == \E i \in 1..10 : Digits[i] = c

DigitVal(c) == (CHOOSE i \in 1..10 : Digits[i] = c) - 1

\* isspace() in the "C" locale
IsSpace(c) == c \in {" ", "\t", "\n", "\r"}

\* s[i] of a C string, 0-based; the terminating '\0' is "" here
CharAt(s, i) == IF i < Len(s) THEN s[i + 1] ELSE ""

\* the token as printed by %s
RECURSIVE Str(_)
Str(s) == IF s = <<>> THEN "" ELSE Head(s) \o Str(Tail(s))

\* argv[i], 0-based as in the code
Arg(av, i) == IF i = 0 THEN Prog ELSE av[i]

Argc(av) == Len(av) + 1

(***************************************************************************)
(* print_error, print_help                                                 *)
(***************************************************************************)

print_error(msg) == "Error: " \o msg

print_help == "Usage (RPN):"

(***************************************************************************)
(* strtol(s, &end, 10) and parse_int                                       *)
(***************************************************************************)

RECURSIVE SkipSpaces(_, _)
SkipSpaces(s, i) == IF IsSpace(CharAt(s, i)) THEN SkipSpaces(s, i + 1) ELSE i

RECURSIVE SkipDigits(_, _)
SkipDigits(s, i) == IF IsDigit(CharAt(s, i)) THEN SkipDigits(s, i + 1) ELSE i

\* The digits s[i..] accumulated into n, the negated magnitude read so far.
\* The strtol value is a long; it is kept only while it fits an int, and
\* `wide` records that it left [INT_MIN, INT_MAX] (where the code returns -1
\* either by ERANGE or by the range test on v).
RECURSIVE Accum(_, _, _)
Accum(s, i, n) ==
  IF ~IsDigit(CharAt(s, i))
  THEN [wide |-> FALSE, n |-> n, endp |-> i]
  ELSE LET dv == DigitVal(CharAt(s, i))
           lim == -(INT_MAX \div 10)
       IN IF n < lim \/ (n = lim /\ dv > (INT_MAX % 10) + 1)
          THEN [wide |-> TRUE, n |-> 0, endp |-> SkipDigits(s, i)]
          ELSE Accum(s, i + 1, 10 * n - dv)

\* endp is the offset of `end` in s; endp = 0 is end == s (no conversion)
strtol(s) ==
  LET i0  == SkipSpaces(s, 0)
      c   == CharAt(s, i0)
      neg == c = "-"
      j   == IF c \in {"-", "+"} THEN i0 + 1 ELSE i0
  IN IF ~IsDigit(CharAt(s, j))
     THEN [endp |-> 0, wide |-> FALSE, v |-> 0]
     ELSE LET r == Accum(s, j, 0)
          IN IF r.wide \/ (~neg /\ r.n = INT_MIN)
             THEN [endp |-> r.endp, wide |-> TRUE, v |-> 0]
             ELSE [endp |-> r.endp, wide |-> FALSE,
                   v |-> IF neg THEN r.n ELSE -r.n]

\* rc = 0 and the value stored through `out`, or rc = -1
parse_int(s) ==
  LET r == strtol(s)
  IN IF r.wide THEN [rc |-> -1, val |-> 0]
     ELSE IF r.endp = 0 THEN [rc |-> -1, val |-> 0]
     ELSE IF CharAt(s, r.endp) # "" THEN [rc |-> -1, val |-> 0]
     ELSE [rc |-> 0, val |-> r.v]

\* is_binary_op without the operator test
is_binary_op_Any(op) == op # ""

is_binary_op(op) == op \in {"+", "-", "x", "/", "^"}

is_negative_number_token(s) == CharAt(s, 0) = "-" /\ IsDigit(CharAt(s, 1))

(***************************************************************************)
(* getopt_long(argc, argv, "+h", long_opts, nullptr), first call after     *)
(* optind = 1.  Every branch of the option loop of parse() returns or      *)
(* sets stop_options, so the scanner is called at most once per run.       *)
(* opt is "h", "?" or "EOF" (-1); oi is optind after the call.             *)
(***************************************************************************)

IsPrefix(p, s) == Len(p) <= Len(s) /\ SubSeq(s, 1, Len(p)) = p

RECURSIVE IndexOf(_, _, _)
\* offset of the first c in s at or after i, Len(s) if there is none
IndexOf(s, c, i) ==
  IF i >= Len(s) THEN Len(s)
  ELSE IF CharAt(s, i) = c THEN i ELSE IndexOf(s, c, i + 1)

\* getopt_long that knows no long option
getopt_long_ShortOnly(av) ==
  IF Argc(av) = 1 THEN [opt |-> "EOF", oi |-> 1]
  ELSE
    LET t == Arg(av, 1) IN
    IF t = <<"-", "-">> THEN [opt |-> "EOF", oi |-> 2]
    ELSE IF CharAt(t, 0) # "-" \/ CharAt(t, 1) = ""
      THEN [opt |-> "EOF", oi |-> 1]
    ELSE IF CharAt(t, 1) = "-"
      THEN [opt |-> "?", oi |-> 2]
    ELSE
      LET c  == CharAt(t, 1)
          oi == IF CharAt(t, 2) = "" THEN 2 ELSE 1
      IN IF c = "h" THEN [opt |-> "h", oi |-> oi]
         ELSE [opt |-> "?", oi |-> oi]

getopt_long(av) ==
  IF Argc(av) = 1 THEN [opt |-> "EOF", oi |-> 1]
  ELSE
    LET t == Arg(av, 1) IN
    IF t = <<"-", "-">> THEN [opt |-> "EOF", oi |-> 2]
    ELSE IF CharAt(t, 0) # "-" \/ CharAt(t, 1) = ""
      \* '+' in the option string: stop at the first non-option
      THEN [opt |-> "EOF", oi |-> 1]
    ELSE IF CharAt(t, 1) = "-"
      \* long option, abbreviations of "help" accepted, no argument allowed
      THEN LET eq   == IndexOf(t, "=", 2)
               name == SubSeq(t, 3, eq)
           IN IF IsPrefix(name, <<"h", "e", "l", "p">>) /\ eq = Len(t)
              THEN [opt |-> "h", oi |-> 2]
              ELSE [opt |-> "?", oi |-> 2]
    ELSE
      \* short option: optind moves on only with the token's last character
      LET c  == CharAt(t, 1)
          oi == IF CharAt(t, 2) = "" THEN 2 ELSE 1
      IN IF c = "h" THEN [opt |-> "h", oi |-> oi]
         ELSE [opt |-> "?", oi |-> oi]

(***************************************************************************)
(* parse(): 0 - ok; 1 - help requested; 2 - usage error                    *)
(***************************************************************************)

ParseRes(rc, wh, oi, dd, e) ==
  [rc |-> rc, want_help |-> wh, optind |-> oi, d |-> dd, err |-> e]

ZeroData == [a |-> 0, b |-> 0, op |-> "", result |-> 0]

\* the operator token: a single character
IsSingleChar(op) == CharAt(op, 0) # "" /\ CharAt(op, 1) = ""

\* N !
parse_unary(av, oi) ==
  LET pa == parse_int(Arg(av, oi))
      op == Arg(av, oi + 1)
      d1 == [ZeroData EXCEPT !.a = pa.val]
      d2 == [d1 EXCEPT !.op = CharAt(op, 0)]
  IN IF pa.rc # 0
     THEN ParseRes(2, 0, oi, ZeroData,
                   <<print_error("invalid integer: " \o Str(Arg(av, oi)))>>)
     ELSE IF ~IsSingleChar(op)
     THEN ParseRes(2, 0, oi, d1,
                   <<print_error("operation must be a single character")>>)
     ELSE IF d2.op # "!"
     THEN ParseRes(2, 0, oi, d2,
                   <<print_error("unary form requires '!': N !")>>)
     ELSE ParseRes(0, 0, oi, d2, <<>>)

\* A B OP
parse_binary(av, oi) ==
  LET pa == parse_int(Arg(av, oi))
      pb == parse_int(Arg(av, oi + 1))
      op == Arg(av, oi + 2)
      d1 == [ZeroData EXCEPT !.a = pa.val]
      d2 == [d1 EXCEPT !.b = pb.val]
      d3 == [d2 EXCEPT !.op = CharAt(op, 0)]
  IN IF pa.rc # 0
     THEN ParseRes(2, 0, oi, ZeroData,
                   <<print_error("invalid integer: " \o Str(Arg(av, oi)))>>)
     ELSE IF pb.rc # 0
     THEN ParseRes(2, 0, oi, d1,
                   <<print_error("invalid integer: " \o Str(Arg(av, oi + 1)))>>)
     ELSE IF ~IsSingleChar(op)
     THEN ParseRes(2, 0, oi, d2,
                   <<print_error("operation must be a single character")>>)
     ELSE ParseRes(0, 0, oi, d3, <<>>)

\* parse_positional with the count test `remaining < 2`
parse_positional_NoUpperBound(d0, av, oi) ==
  LET remaining == Argc(av) - oi
  IN IF remaining < 2
     THEN ParseRes(2, 0, oi, d0,
                   <<print_error("invalid number of arguments")>>)
     ELSE IF remaining = 2 THEN parse_unary(av, oi)
     ELSE parse_binary(av, oi)

\* the part of parse() after the option loop, optind = oi
parse_positional(d0, av, oi) ==
  LET remaining == Argc(av) - oi
  IN IF remaining # 2 /\ remaining # 3
     THEN ParseRes(2, 0, oi, d0,
                   <<print_error("invalid number of arguments")>>)
     ELSE IF remaining = 2 THEN parse_unary(av, oi)
     ELSE parse_binary(av, oi)

parse(d0, av) ==
  LET g   == getopt_long(av)
      bad == Arg(av, g.oi - 1)
  IN IF g.opt = "h" THEN ParseRes(1, 1, g.oi, d0, <<>>)
     ELSE IF g.opt = "?"
     THEN IF is_negative_number_token(bad)
          THEN parse_positional(d0, av, g.oi - 1)
          ELSE ParseRes(2, 0, g.oi, d0,
                        <<print_error("unknown option: " \o Str(bad))>>)
     ELSE parse_positional(d0, av, g.oi)

(***************************************************************************)
(* check(): 0 - ok; 1 - usage error; 2 - runtime error                     *)
(***************************************************************************)

check(dd) ==
  IF dd.op = "!"
  THEN IF dd.b # 0
       THEN [rc |-> 1,
             err |-> <<print_error("'!' must be used in unary form: N !")>>]
       ELSE IF dd.a < 0
       THEN [rc |-> 2, err |-> <<print_error("factorial requires n >= 0")>>]
       ELSE [rc |-> 0, err |-> <<>>]
  ELSE IF ~is_binary_op(dd.op)
  THEN [rc |-> 1, err |-> <<print_error("unknown operation")>>]
  ELSE IF dd.op = "^" /\ dd.b < 0
  THEN [rc |-> 2, err |-> <<print_error("power requires exp >= 0")>>]
  ELSE IF dd.op = "/" /\ dd.b = 0
  THEN [rc |-> 2, err |-> <<print_error("division by zero")>>]
  ELSE [rc |-> 0, err |-> <<>>]

(***************************************************************************)
(* mathlib: checked arithmetic over int.  Each operation gives a status    *)
(* and, on success, the value stored through the result pointer.  The      *)
(* range tests are written so that no intermediate value leaves int.       *)
(***************************************************************************)

MathRes(rc, val) == [rc |-> rc, val |-> val]

Abs(n) == IF n < 0 THEN -n ELSE n

math_add(a, b) ==
  IF (b > 0 /\ a > INT_MAX - b) \/ (b < 0 /\ a < INT_MIN - b)
  THEN MathRes("MATH_ERR_OVERFLOW", 0)
  ELSE MathRes("MATH_OK", a + b)

math_sub(a, b) ==
  IF (b < 0 /\ a > INT_MAX + b) \/ (b > 0 /\ a < INT_MIN + b)
  THEN MathRes("MATH_ERR_OVERFLOW", 0)
  ELSE MathRes("MATH_OK", a - b)

math_mul(a, b) ==
  IF a = 0 \/ b = 0 THEN MathRes("MATH_OK", 0)
  ELSE IF a = INT_MIN
  THEN IF b = 1 THEN MathRes("MATH_OK", a) ELSE MathRes("MATH_ERR_OVERFLOW", 0)
  ELSE IF b = INT_MIN
  THEN IF a = 1 THEN MathRes("MATH_OK", b) ELSE MathRes("MATH_ERR_OVERFLOW", 0)
  ELSE LET q == INT_MAX \div Abs(b)
           r == INT_MAX % Abs(b)
       IN IF Abs(a) <= q THEN MathRes("MATH_OK", a * b)
          ELSE IF (a < 0) # (b < 0) /\ Abs(a) = q + 1 /\ r = Abs(b) - 1
          THEN MathRes("MATH_OK", INT_MIN)
          ELSE MathRes("MATH_ERR_OVERFLOW", 0)

\* a / b of C (truncation towards zero), for b > 0
TruncDiv(a, b) == (a \div b) + (IF a < 0 /\ a % b # 0 THEN 1 ELSE 0)

math_div(a, b) ==
  IF b = 0 THEN MathRes("MATH_ERR_DIV_BY_ZERO", 0)
  ELSE IF a = INT_MIN /\ b = -1 THEN MathRes("MATH_ERR_OVERFLOW", 0)
  ELSE IF b > 0 THEN MathRes("MATH_OK", TruncDiv(a, b))
  ELSE IF b = INT_MIN THEN MathRes("MATH_OK", IF a = INT_MIN THEN 1 ELSE 0)
  ELSE MathRes("MATH_OK", -TruncDiv(a, -b))

RECURSIVE PowLoop(_, _, _)
\* n more multiplications of acc by a
PowLoop(acc, a, n) ==
  IF n = 0 THEN MathRes("MATH_OK", acc)
  ELSE LET m == math_mul(acc, a)
       IN IF m.rc # "MATH_OK" THEN m ELSE PowLoop(m.val, a, n - 1)

\* Repeated checked multiplication.  For the bases 0, 1 and -1 the loop
\* never overflows and its value after b steps is written directly.
math_pow(a, b) ==
  IF b < 0 THEN MathRes("MATH_ERR_INVALID_ARG", 0)
  ELSE IF b = 0 THEN MathRes("MATH_OK", 1)
  ELSE IF a = 0 \/ a = 1 THEN MathRes("MATH_OK", a)
  ELSE IF a = -1 THEN MathRes("MATH_OK", IF b % 2 = 0 THEN 1 ELSE -1)
  ELSE PowLoop(1, a, b)

RECURSIVE FactLoop(_, _, _)
\* acc multiplied by i, i + 1, ..., n
FactLoop(acc, i, n) ==
  IF i > n THEN MathRes("MATH_OK", acc)
  ELSE LET m == math_mul(acc, i)
       IN IF m.rc # "MATH_OK" THEN m ELSE FactLoop(m.val, i + 1, n)

math_fact(n) ==
  IF n < 0 THEN MathRes("MATH_ERR_INVALID_ARG", 0)
  ELSE FactLoop(1, 1, n)

(***************************************************************************)
(* calculate(): 0 - ok; 2 - runtime error                                  *)
(***************************************************************************)

print_math_error(rc) ==
  CASE rc = "MATH_ERR_OVERFLOW"    -> print_error("overflow")
    [] rc = "MATH_ERR_DIV_BY_ZERO" -> print_error("division by zero")
    [] rc = "MATH_ERR_INVALID_ARG" -> print_error("invalid argument")
    [] OTHER                       -> print_error("math error (code=" \o rc \o ")")

\* the arithmetic function the operator selects
MathFn(op) ==
  CASE op = "+" -> "math_add"
    [] op = "-" -> "math_sub"
    [] op = "x" -> "math_mul"
    [] op = "/" -> "math_div"
    [] op = "^" -> "math_pow"
    [] op = "!" -> "math_fact"
    [] OTHER    -> "none"

MathCall(dd) ==
  CASE dd.op = "+" -> math_add(dd.a, dd.b)
    [] dd.op = "-" -> math_sub(dd.a, dd.b)
    [] dd.op = "x" -> math_mul(dd.a, dd.b)
    [] dd.op = "/" -> math_div(dd.a, dd.b)
    [] dd.op = "^" -> math_pow(dd.a, dd.b)
    [] dd.op = "!" -> math_fact(dd.a)

\* calculate that does not test the status of the arithmetic function
calculate_IgnoresStatus(dd) ==
  IF MathFn(dd.op) = "none"
  THEN [rc |-> 2, d |-> dd, calls |-> <<>>, err |-> <<>>, math |-> "none"]
  ELSE LET m    == MathCall(dd)
           call == [fn |-> MathFn(dd.op), a |-> dd.a, b |-> dd.b]
       IN [rc |-> 0, d |-> [dd EXCEPT !.result = m.val],
           calls |-> <<call>>, err |-> <<>>, math |-> m.rc]

\* rc, the record after the call, the library call made, the message written
calculate(dd) ==
  IF MathFn(dd.op) = "none"
  THEN [rc |-> 2, d |-> dd, calls |-> <<>>, err |-> <<>>, math |-> "none"]
  ELSE LET m    == MathCall(dd)
           call == [fn |-> MathFn(dd.op), a |-> dd.a, b |-> dd.b]
       IN IF m.rc # "MATH_OK"
          THEN [rc |-> 2, d |-> dd, calls |-> <<call>>,
                err |-> <<print_math_error(m.rc)>>, math |-> m.rc]
          ELSE [rc |-> 0, d |-> [dd EXCEPT !.result = m.val],
                calls |-> <<call>>, err |-> <<>>, math |-> m.rc]

(***************************************************************************)
(* print_result                                                            *)
(***************************************************************************)

print_result(dd) ==
  CASE dd.op = "!" ->
         "fact(" \o ToString(dd.a) \o ") = " \o ToString(dd.result)
    [] dd.op = "^" ->
         ToString(dd.a) \o "^" \o ToString(dd.b) \o " = " \o ToString(dd.result)
    [] dd.op = "x" ->
         ToString(dd.a) \o " x " \o ToString(dd.b) \o " = " \o ToString(dd.result)
    [] OTHER ->
         ToString(dd.a) \o " " \o dd.op \o " " \o ToString(dd.b)
           \o " = " \o ToString(dd.result)

(***************************************************************************)
(* run(): the state machine                                                *)
(***************************************************************************)

\* the argument vectors of n tokens
ArgVectors(n) == [1..n -> Tokens]

\* CalcData d is declared without an initialiser; parse() stores every
\* field before it returns 0 and run() reads d only after that.
Init ==
  /\ \E n \in 0..MaxArgs : argv \in ArgVectors(n)
  /\ pc = "parse"
  /\ optind = 1
  /\ want_help = 0
  /\ prc = 0
  /\ d = ZeroData
  /\ crc = 0
  /\ calc_rc = 0
  /\ math_rc = "none"
  /\ out = <<>>
  /\ err = <<>>
  /\ calls = <<>>
  /\ stages = <<>>
  /\ status = 0

\* return from run() with exit status s
Exit(s) == pc' = "done" /\ status' = s

\* int prc = parse(&d, argc, argv, &want_help), and the two tests on it
RunParse ==
  /\ pc = "parse"
  /\ LET r == parse(d, argv)
     IN /\ prc' = r.rc
        /\ want_help' = r.want_help
        /\ optind' = r.optind
        /\ d' = r.d
        /\ err' = err \o r.err
        /\ stages' = Append(stages, "parse")
        /\ IF r.want_help # 0
           THEN out' = Append(out, print_help) /\ Exit(0)
           ELSE IF r.rc # 0
           THEN out' = Append(out, print_help) /\ Exit(1)
           ELSE out' = out /\ pc' = "check" /\ status' = status
  /\ UNCHANGED <<argv, crc, calc_rc, math_rc, calls>>

\* the switch on check() with help printed in case 2 as well
RunCheck_HelpOnRuntimeError ==
  /\ pc = "check"
  /\ LET r == check(d)
     IN /\ crc' = r.rc
        /\ err' = err \o r.err
        /\ stages' = Append(stages, "check")
        /\ CASE r.rc = 0 -> out' = out /\ pc' = "calculate" /\ status' = status
             [] r.rc = 1 -> out' = Append(out, print_help) /\ Exit(1)
             [] OTHER    -> out' = Append(out, print_help) /\ Exit(2)
  /\ UNCHANGED <<argv, optind, want_help, prc, d, calc_rc, math_rc, calls>>

\* the switch on check() with case 2 falling out of the switch
RunCheck_RuntimeErrorContinues ==
  /\ pc = "check"
  /\ LET r == check(d)
     IN /\ crc' = r.rc
        /\ err' = err \o r.err
        /\ stages' = Append(stages, "check")
        /\ CASE r.rc = 1 -> out' = Append(out, print_help) /\ Exit(1)
             [] OTHER    -> out' = out /\ pc' = "calculate" /\ status' = status
  /\ UNCHANGED <<argv, optind, want_help, prc, d, calc_rc, math_rc, calls>>

\* switch (check(&d))
RunCheck ==
  /\ pc = "check"
  /\ LET r == check(d)
     IN /\ crc' = r.rc
        /\ err' = err \o r.err
        /\ stages' = Append(stages, "check")
        /\ CASE r.rc = 0 -> out' = out /\ pc' = "calculate" /\ status' = status
             [] r.rc = 1 -> out' = Append(out, print_help) /\ Exit(1)
             [] OTHER    -> out' = out /\ Exit(2)
  /\ UNCHANGED <<argv, optind, want_help, prc, d, calc_rc, math_rc, calls>>

\* int calc_rc = calculate(&d)
RunCalculate ==
  /\ pc = "calculate"
  /\ LET r == calculate(d)
     IN /\ calc_rc' = r.rc
        /\ math_rc' = r.math
        /\ d' = r.d
        /\ calls' = calls \o r.calls
        /\ err' = err \o r.err
        /\ stages' = Append(stages, "calculate")
        /\ IF r.rc # 0
           THEN Exit(2)
           ELSE pc' = "print" /\ status' = status
  /\ UNCHANGED <<argv, optind, want_help, prc, crc, out>>

\* print_result(&d); return 0
RunPrintResult ==
  /\ pc = "print"
  /\ out' = Append(out, print_result(d))
  /\ stages' = Append(stages, "print_result")
  /\ Exit(0)
  /\ UNCHANGED <<argv, optind, want_help, prc, d, crc, calc_rc, math_rc,
                 calls, err>>

Next == RunParse \/ RunCheck \/ RunCalculate \/ RunPrintResult

Spec == Init /\ [][Next]_vars

(***************************************************************************)
(* Vocabulary of the properties                                            *)
(***************************************************************************)

Done == pc = "done"

HelpPrinted == \E i \in 1..Len(out) : out[i] = print_help

ResultPrinted == \E i \in 1..Len(out) : out[i] # print_help

Ran(stage) == \E i \in 1..Len(stages) : stages[i] = stage

\* a token that is, as a whole, a decimal integer: an optional sign and
\* one or more digits
IsDecimal(t) ==
  LET k == IF CharAt(t, 0) \in {"-", "+"} THEN 1 ELSE 0
  IN Len(t) > k /\ \A i \in (k + 1)..Len(t) : IsDigit(t[i])

RECURSIVE NegMagnitude(_, _, _)
\* the digits t[i..] read into n, the negated magnitude; 1 once the
\* magnitude exceeds 2^31
NegMagnitude(t, i, n) ==
  IF i > Len(t) \/ n = 1 THEN n
  ELSE IF n < -214748364 \/ (n = -214748364 /\ DigitVal(t[i]) > 8) THEN 1
  ELSE NegMagnitude(t, i + 1, 10 * n - DigitVal(t[i]))

\* the decimal token denotes a value of the 32-bit signed range
InIntRange(t) ==
  LET k == IF CharAt(t, 0) \in {"-", "+"} THEN 1 ELSE 0
      m == NegMagnitude(t, k + 1, 0)
  IN m # 1 /\ (CharAt(t, 0) = "-" \/ m > -2147483647 - 1)

\* the value of a decimal token of the 32-bit signed range
DecValue(t) ==
  LET k == IF CharAt(t, 0) \in {"-", "+"} THEN 1 ELSE 0
      m == NegMagnitude(t, k + 1, 0)
  IN IF CharAt(t, 0) = "-" THEN m ELSE -m

IsIntToken(t) == IsDecimal(t) /\ InIntRange(t)

\* `-` followed by digits, in range
IsNegativeInt(t) == IsIntToken(t) /\ CharAt(t, 0) = "-"

Operators == {"+", "-", "x", "/", "^", "!"}

\* number of positional arguments left by the option scanner
Positionals == Argc(argv) - optind

\* the last argument, the operator token of both forms
LastArg == Arg(argv, Argc(argv) - 1)

UnknownOptionReported ==
  \E i \in 1..Len(err) : \E t \in Tokens \cup {Prog} :
     err[i] = "Error: unknown option: " \o Str(t)

(***************************************************************************)
(* Properties                                                              *)
(***************************************************************************)

\* C1: a finished run has exit status 0, 1 or 2; with status 1 the help
\* text has been printed, with status 2 it has not.
C1_StatusAndHelp ==
  Done => /\ status \in {0, 1, 2}
          /\ status = 1 => HelpPrinted
          /\ status = 2 => ~HelpPrinted

\* a runtime error found by check() has ended the run
C1_Witness == Done /\ crc = 2 /\ status = 2 /\ stages = <<"parse", "check">>

\* `A B !` with integers A and B, or `N OP` with OP other than `!`
ArityMismatch ==
  \/ /\ Len(argv) = 3
     /\ IsIntToken(argv[1]) /\ IsIntToken(argv[2])
     /\ argv[3] = <<"!">>
  \/ /\ Len(argv) = 2
     /\ IsIntToken(argv[1])
     /\ argv[2] # <<"!">>

\* C2: every invocation `A B !` (B = 0 included) and every invocation
\* `N OP` with OP other than `!` exits with status 1 with help, calls no
\* arithmetic function and prints no result line.
C2_ArityMismatchRejected ==
  (Done /\ ArityMismatch) =>
     status = 1 /\ HelpPrinted /\ calls = <<>> /\ ~ResultPrinted

\* C3: when the first token is `-` followed by digits and denotes an int,
\* the option loop reports no unknown option and leaves optind at that
\* token, and the token is parsed as operand a with its exact value.
C3_NegativeFirstOperand ==
  (Ran("parse") /\ Len(argv) >= 1 /\ IsNegativeInt(argv[1])) =>
     /\ ~UnknownOptionReported
     /\ optind = 1
     /\ Len(argv) \in {2, 3} => d.a = DecValue(argv[1])

\* `A 0 /`, `A B ^` with B < 0, `N !` with N < 0
PreconditionViolated ==
  \/ /\ Len(argv) = 3
     /\ IsIntToken(argv[1]) /\ IsIntToken(argv[2])
     /\ \/ argv[3] = <<"/">> /\ DecValue(argv[2]) = 0
        \/ argv[3] = <<"^">> /\ DecValue(argv[2]) < 0
  \/ /\ Len(argv) = 2
     /\ IsIntToken(argv[1]) /\ DecValue(argv[1]) < 0
     /\ argv[2] = <<"!">>

\* the arithmetic library is never entered outside an operation's domain
DomainRespected ==
  \A i \in 1..Len(calls) :
     /\ calls[i].fn = "math_div"  => calls[i].b # 0
     /\ calls[i].fn = "math_pow"  => calls[i].b >= 0
     /\ calls[i].fn = "math_fact" => calls[i].a >= 0

\* C4: math_div is never called with a zero divisor, math_pow never with a
\* negative exponent, math_fact never with a negative argument, and each
\* such invocation exits with status 2 with an error message ("Error:
\* division by zero" for the division) and without help or a result line.
C4_PreconditionsEnforced ==
  /\ DomainRespected
  /\ (Done /\ PreconditionViolated) =>
        /\ status = 2
        /\ Len(err) = 1
        /\ ~HelpPrinted /\ ~ResultPrinted
        /\ (Len(argv) = 3 /\ argv[3] = <<"/">>) =>
              err = <<"Error: division by zero">>

\* an invocation the positional part of parse() or check() must refuse
Malformed ==
  \/ Positionals \notin {2, 3}
  \/ ~IsSingleChar(LastArg)
  \/ Positionals = 3 /\ CharAt(LastArg, 0) \notin Operators

\* C5: when the option scanner has ended without a help request and the
\* number of positional arguments is not 2 or 3, or the operator token is
\* empty or longer than one character, or three positional arguments end
\* in a character other than + - x / ^ !, the run exits with status 1 with
\* help printed and no arithmetic function is called.
C5_MalformedIsUsageError ==
  (Done /\ want_help = 0 /\ Malformed) =>
     status = 1 /\ HelpPrinted /\ calls = <<>>

\* `1 2 3`: three operands, refused by check() as an unknown operation
C5_Witness ==
  /\ Done /\ status = 1 /\ crc = 1
  /\ Positionals = 3 /\ IsIntToken(LastArg)
  /\ err = <<"Error: unknown operation">>

HelpFlags == { <<"-", "h">>, <<"-", "-", "h", "e", "l", "p">> }

\* C6: with -h or --help as the first argument the run prints the usage
\* text and exits with status 0 whatever follows, writes no error message,
\* runs neither check() nor an arithmetic function, prints no result line.
C6_HelpFlag ==
  (Done /\ Len(argv) >= 1 /\ argv[1] \in HelpFlags) =>
     /\ status = 0
     /\ out = <<print_help>>
     /\ err = <<>>
     /\ calls = <<>>
     /\ stages = <<"parse">>

\* --help followed by a complete binary invocation
C6_Witness ==
  /\ Done /\ Len(argv) = 4 /\ argv[1] = <<"-", "-", "h", "e", "l", "p">>
  /\ IsIntToken(argv[2]) /\ IsIntToken(argv[3]) /\ argv[4] = <<"+">>
  /\ status = 0

\* C7: parse() accepts an operand token only if the whole token is a
\* decimal integer of the 32-bit signed range, and then the record holds
\* exactly its value; an invocation with an operand token that is not one
\* exits with status 1 with help and no arithmetic function is called.
C7_StrictOperands ==
  /\ (Ran("parse") /\ want_help = 0 /\ prc = 0) =>
        /\ IsIntToken(Arg(argv, optind))
        /\ d.a = DecValue(Arg(argv, optind))
        /\ Positionals = 3 =>
              /\ IsIntToken(Arg(argv, optind + 1))
              /\ d.b = DecValue(Arg(argv, optind + 1))
  /\ (/\ Done /\ want_help = 0 /\ Positionals \in {2, 3}
      /\ \/ ~IsIntToken(Arg(argv, optind))
         \/ Positionals = 3 /\ ~IsIntToken(Arg(argv, optind + 1)))
     => status = 1 /\ HelpPrinted /\ calls = <<>>

Pipeline == <<"parse", "check", "calculate", "print_result">>

\* C8: the stages run in the order parse, check, calculate, print_result,
\* each at most once; check() only after parse() returned 0 without a help
\* request, an arithmetic function only after check() returned 0,
\* print_result() only after calculate() returned 0; a failing stage is
\* the last one and the exit status is then not 0.
C8_LinearPipeline ==
  /\ Len(stages) <= 4 /\ stages = SubSeq(Pipeline, 1, Len(stages))
  /\ Len(calls) <= 1
  /\ Ran("check") => prc = 0 /\ want_help = 0
  /\ calls # <<>> => Ran("check") /\ crc = 0
  /\ Ran("calculate") => crc = 0
  /\ ResultPrinted => Ran("calculate") /\ calc_rc = 0
  /\ (Ran("parse") /\ prc # 0 /\ want_help = 0) =>
        Done /\ status # 0 /\ stages = <<"parse">>
  /\ (Ran("check") /\ crc # 0) =>
        Done /\ status # 0 /\ stages = <<"parse", "check">>
  /\ (Ran("calculate") /\ calc_rc # 0) =>
        Done /\ status # 0 /\ stages = <<"parse", "check", "calculate">>

\* a run through all four stages
C8_Witness == Done /\ stages = Pipeline /\ status = 0 /\ Len(calls) = 1

\* C9: when the arithmetic function signals a status other than success,
\* calculate() returns 2 and the run exits with status 2 after writing the
\* message of that status, and no result is printed; when it signals
\* success the run exits 0 and prints the result the function stored.
C9_ArithmeticStatus ==
  /\ print_math_error("MATH_ERR_OVERFLOW") = "Error: overflow"
  /\ print_math_error("MATH_ERR_DIV_BY_ZERO") = "Error: division by zero"
  /\ print_math_error("MATH_ERR_INVALID_ARG") = "Error: invalid argument"
  /\ (Ran("calculate") /\ math_rc # "MATH_OK") =>
        /\ calc_rc = 2
        /\ Done /\ status = 2
        /\ err = <<print_math_error(math_rc)>>
        /\ ~ResultPrinted
  /\ (Ran("calculate") /\ math_rc = "MATH_OK") =>
        /\ calc_rc = 0
        /\ d.result = MathCall([d EXCEPT !.result = 0]).val
        /\ Done => status = 0 /\ out = <<print_result(d)>> /\ err = <<>>

\* an overflow signalled by the library for INT_MAX as an operand
C9_Witness ==
  /\ Done /\ math_rc = "MATH_ERR_OVERFLOW" /\ status = 2
  /\ d.a = INT_MAX /\ d.op = "+"

\* C10: a run that exits with status 1 or 2 has written exactly one error
\* message and no result line; a run that exits 0 without a help request
\* has written exactly one result line and no error message; calculate()
\* never takes its default branch.
C10_OutputMatchesStatus ==
  /\ (Done /\ status \in {1, 2}) => Len(err) = 1 /\ ~ResultPrinted
  /\ (Done /\ status = 0 /\ want_help = 0) =>
        Len(out) = 1 /\ ResultPrinted /\ err = <<>>
  /\ Ran("calculate") => math_rc # "none"

\* exit 2 from calculate() with its one message
C10_Witness ==
  /\ Done /\ status = 2 /\ calc_rc = 2 /\ Len(err) = 1 /\ out = <<>>
  /\ d.op = "!"

====
